---- MODULE Spec2Model ----
(***************************************************************************)
(* Model of phase_diagram.py: the compound lookup of PhaseDiagram.__init__ *)
(* and the four curve evaluators clapeyron_sl, clapeyron_sv, clapeyron_lv  *)
(* and antoine_lv.                                                         *)
(*                                                                         *)
(* Numbers.  A float is modelled exactly: it is NaN, or c0 + c1 * f(arg)   *)
(* with c0, c1, arg rationals and f one of ln, exp, pow10 (at most one     *)
(* transcendental atom, which is all the four formulas need).  np.log(1),  *)
(* np.exp(0) and 10**0 are the exact floats 0, 1 and 1, and are reduced to *)
(* rationals; every other atom stays symbolic.  Rationals are pairs        *)
(* <<numerator, denominator>> in lowest terms with a positive denominator. *)
(***************************************************************************)
EXTENDS Integers, Sequences, FiniteSets, TLC

VARIABLES DF, compound, self, pc, result, call, resolved, DF0, prior

vars == <<DF, compound, self, pc, result, call, resolved, DF0, prior>>

----------------------------------------------------------------------------
(* Bounds *)

\* largest temp_range argument tried (and, negated, the smallest)
MaxRange == 2

----------------------------------------------------------------------------
(* Rational arithmetic *)

Abs(n) == IF n < 0 THEN -n ELSE n

RECURSIVE GCD(_, _)
GCD(a, b) == IF b = 0 THEN a ELSE GCD(b, a % b)

Norm(n, d) ==
    LET s == IF d < 0 THEN -1 ELSE 1
        g == GCD(Abs(n), Abs(d))
    IN  <<(s * n) \div g, (s * d) \div g>>

Rat(n) == <<n, 1>>

RAdd(a, b) ==
    LET g == GCD(a[2], b[2])
    IN  Norm(a[1] * (b[2] \div g) + b[1] * (a[2] \div g), (a[2] \div g) * b[2])

RNeg(a) == <<-a[1], a[2]>>

RSub(a, b) == RAdd(a, RNeg(b))

RMul(a, b) ==
    LET g1 == GCD(Abs(a[1]), b[2])
        g2 == GCD(Abs(b[1]), a[2])
    IN  Norm((a[1] \div g1) * (b[1] \div g2), (a[2] \div g2) * (b[2] \div g1))

\* b is not zero
RInv(b) == Norm(b[2], b[1])

RDiv(a, b) == RMul(a, RInv(b))

\* a < b, by comparing integer parts and then the reciprocals of the
\* fractional parts, so that no cross product is formed
RECURSIVE RLess(_, _)
RLess(a, b) ==
    LET qa == a[1] \div a[2]
        qb == b[1] \div b[2]
        ra == a[1] % a[2]
        rb == b[1] % b[2]
    IN  IF qa # qb THEN qa < qb
        ELSE IF rb = 0 THEN FALSE
        ELSE IF ra = 0 THEN TRUE
        ELSE RLess(<<b[2], rb>>, <<a[2], ra>>)

RLeq(a, b) == a = b \/ RLess(a, b)

----------------------------------------------------------------------------
(* Floats *)

Zero == Rat(0)

NaN == [nan |-> TRUE, c0 |-> Zero, c1 |-> Zero, fn |-> "", arg |-> Zero]

\* the float n/d
F(n, d) == [nan |-> FALSE, c0 |-> Norm(n, d), c1 |-> Zero, fn |-> "", arg |-> Zero]

FR(r) == [nan |-> FALSE, c0 |-> r, c1 |-> Zero, fn |-> "", arg |-> Zero]

IsNaN(v) == v.nan

IsRat(v) == ~v.nan /\ v.c1 = Zero

Atom(f, r) == [nan |-> FALSE, c0 |-> Zero, c1 |-> Rat(1), fn |-> f, arg |-> r]

\* c0 + c1 * f(arg), with the atom dropped when its coefficient is zero
Lin(c0, c1, f, r) ==
    IF c1 = Zero THEN FR(c0)
    ELSE [nan |-> FALSE, c0 |-> c0, c1 |-> c1, fn |-> f, arg |-> r]

VAdd(a, b) ==
    CASE a.nan \/ b.nan -> NaN
      [] ~(a.nan \/ b.nan) /\ IsRat(a) -> Lin(RAdd(a.c0, b.c0), b.c1, b.fn, b.arg)
      [] ~(a.nan \/ b.nan) /\ ~IsRat(a) /\ IsRat(b) ->
            Lin(RAdd(a.c0, b.c0), a.c1, a.fn, a.arg)

VNeg(a) == IF a.nan THEN NaN ELSE Lin(RNeg(a.c0), RNeg(a.c1), a.fn, a.arg)

VSub(a, b) == VAdd(a, VNeg(b))

VMul(a, b) ==
    CASE a.nan \/ b.nan -> NaN
      [] ~(a.nan \/ b.nan) /\ IsRat(a) ->
            Lin(RMul(a.c0, b.c0), RMul(a.c0, b.c1), b.fn, b.arg)
      [] ~(a.nan \/ b.nan) /\ ~IsRat(a) /\ IsRat(b) ->
            Lin(RMul(b.c0, a.c0), RMul(b.c0, a.c1), a.fn, a.arg)

\* the divisor is a nonzero rational or NaN
VDiv(a, b) ==
    CASE a.nan \/ b.nan -> NaN
      [] ~(a.nan \/ b.nan) /\ IsRat(b) /\ b.c0 # Zero -> VMul(a, FR(RInv(b.c0)))

\* np.log of a positive rational
VLog(a) ==
    CASE a.nan -> NaN
      [] IsRat(a) /\ a.c0 = Rat(1) -> FR(Zero)
      [] IsRat(a) /\ a.c0 # Rat(1) /\ RLess(Zero, a.c0) -> Atom("ln", a.c0)

\* np.exp
VExp(a) ==
    CASE a.nan -> NaN
      [] IsRat(a) /\ a.c0 = Zero -> FR(Rat(1))
      [] IsRat(a) /\ a.c0 # Zero -> Atom("exp", a.c0)

\* 10 ** a
VPow10(a) ==
    CASE a.nan -> NaN
      [] IsRat(a) /\ a.c0 = Zero -> FR(Rat(1))
      [] IsRat(a) /\ a.c0 # Zero -> Atom("pow10", a.c0)

\* a > 0 for a NaN or a rational; any comparison with NaN is False
VGt0(a) == IsRat(a) /\ RLess(Zero, a.c0)

\* a == b as floats: NaN equals nothing
VEq(a, b) == ~a.nan /\ ~b.nan /\ a = b

\* k * exp(x) written as amplitude and exponent; a rational k is k * exp(0)
Amp(p) == IF IsRat(p) THEN p.c0 ELSE p.c1
Expo(p) == IF IsRat(p) THEN Zero ELSE p.arg
IsExpForm(p) == ~p.nan /\ (IsRat(p) \/ (p.fn = "exp" /\ p.c0 = Zero))

\* p < q for two rationals, or for two values k * exp(x), k * exp(y) of the
\* same amplitude (exp is strictly increasing)
VLess(p, q) ==
    CASE p.nan \/ q.nan -> FALSE
      [] IsRat(p) /\ IsRat(q) -> RLess(p.c0, q.c0)
      [] ~(p.nan \/ q.nan) /\ ~(IsRat(p) /\ IsRat(q))
           /\ IsExpForm(p) /\ IsExpForm(q) /\ Amp(p) = Amp(q) ->
            \/ RLess(Zero, Amp(p)) /\ RLess(Expo(p), Expo(q))
            \/ RLess(Amp(p), Zero) /\ RLess(Expo(q), Expo(p))

----------------------------------------------------------------------------
(* Constants of the program *)

\* number of samples of every np.linspace call
NUM == 100

\* scipy.constants.gas_constant, 8.314462618 J/(mol K), to four digits
gas_constant == Norm(8314, 1000)

\* pint: kJ/mol divided by J/(mol K) is reduced to dimensionless by np.exp
KJ_PER_J == Rat(1000)

\* pint: kJ/cc added to pascal is converted to pascal
PA_PER_KJ_CC == Rat(1000000000)

\* np.log10(101325/760) = 2.12490..., to three decimals
LOG10_PA_PER_MMHG == Norm(17, 8)

\* 273.15
CELSIUS_OFFSET == Norm(27315, 100)

----------------------------------------------------------------------------
(* np.linspace(start, stop, num) for rational start and stop *)

\* np.linspace(..., endpoint=False): the stop value is not a sample
linspace_open(start, stop, num) ==
    LET step == RDiv(RSub(stop, start), Rat(num))
    IN  [i \in 1..num |-> RAdd(start, RMul(Rat(i - 1), step))]

linspace(start, stop, num) ==
    LET step == RDiv(RSub(stop, start), Rat(num - 1))
    IN  [i \in 1..num |->
            IF i = num THEN stop
            ELSE RAdd(start, RMul(Rat(i - 1), step))]

----------------------------------------------------------------------------
(* The dataset: data/data.csv read into DF.  A row holds the three         *)
(* identification cells as strings and the numeric cells as floats, an     *)
(* empty numeric cell being NaN.                                           *)

Row(nm, fo, ca, tpt, tpp, cpt, cpp, hm, vm, vmc, hv, hvb, hs, a, b, c, tmin, tmax) ==
    [Name |-> nm, Formula |-> fo, CAS_number |-> ca,
     TP_temperature |-> tpt, TP_pressure |-> tpp,
     CP_temperature |-> cpt, CP_pressure |-> cpp,
     H_melt |-> hm, V_melt |-> vm, V_melt_calc |-> vmc,
     H_vap |-> hv, H_vap_boil |-> hvb, H_sub |-> hs,
     A |-> a, B |-> b, C |-> c, Tmin |-> tmin, Tmax |-> tmax]

\* negative tabulated melting volume, positive derived one; both
\* vaporization enthalpies present and different; [TP, CP] outside the
\* Antoine range
RowWater ==
    Row("water", "H2O", "7732-18-5",
        F(5, 1), F(6, 1), F(8, 1), F(220, 1),
        F(6, 1), F(-4, 1), F(3, 1),
        F(5, 1), F(4, 1), F(7, 1),
        F(8, 1), F(30, 1), F(230, 1), F(1, 1), F(100, 1))

\* tabulated melting volume and boiling-point enthalpy missing
RowEthanol ==
    Row("ethanol", "C2H6O", "64-17-5",
        F(6, 1), F(1, 2), F(9, 1), F(60, 1),
        F(5, 1), NaN, F(4, 1),
        F(4, 1), NaN, F(6, 1),
        F(7, 1), F(20, 1), F(220, 1), F(-270, 1), F(-260, 1))

\* same formula as ethanol; both melting volumes and both vaporization
\* enthalpies missing
RowEther ==
    Row("dimethyl ether", "C2H6O", "115-10-6",
        F(5, 1), F(2, 1), F(9, 1), F(50, 1),
        F(5, 1), NaN, NaN,
        NaN, NaN, F(3, 1),
        F(7, 1), F(10, 1), F(240, 1), F(-270, 1), F(-265, 1))

\* positive tabulated melting volume, negative derived one
RowCarbonDioxide ==
    Row("carbon dioxide", "CO2", "124-38-9",
        F(6, 1), F(5, 1), F(8, 1), F(70, 1),
        F(9, 1), F(20, 1), F(-5, 1),
        NaN, F(3, 1), F(5, 1),
        F(7, 1), F(10, 1), F(270, 1), F(-269, 1), F(-264, 1))

\* a row whose name is the formula of carbon dioxide
RowDryIce ==
    Row("CO2", "CO2(s)", "124-38-9s",
        F(5, 1), F(4, 1), F(9, 1), F(70, 1),
        F(8, 1), F(10, 1), F(10, 1),
        F(3, 1), F(2, 1), F(4, 1),
        F(6, 1), F(10, 1), F(250, 1), F(-270, 1), F(-200, 1))

Datasets ==
    { <<RowWater, RowEthanol, RowEther, RowCarbonDioxide, RowDryIce>>,
      <<RowDryIce, RowEther, RowEthanol, RowWater>>,
      <<>> }

\* identifiers tried: cells of the rows, and substrings and case variants of
\* cells
Identifiers ==
    { "water", "H2O", "7732-18-5", "ethanol", "C2H6O", "115-10-6",
      "dimethyl ether", "carbon dioxide", "CO2", "CO2(s)",
      "Water", "h2o", "H2", "ether", "7732-18", "C2H6", "" }

RangeArgs == (-MaxRange)..MaxRange

----------------------------------------------------------------------------
(* PhaseDiagram.__init__ *)

\* the columns of DF.loc[:, ['Name', 'Formula', 'CAS_number']], in order
IdColumns == <<"Name", "Formula", "CAS_number">>

\* the registry-number column left out of the search
search_no_cas(df, c) ==
    [i \in 1..Len(df) |-> [k \in 1..3 |-> k # 3 /\ df[i][IdColumns[k]] = c]]

\* search = DF.loc[:, [...]].isin([compound])
search(df, c) == [i \in 1..Len(df) |-> [k \in 1..3 |-> df[i][IdColumns[k]] = c]]

\* mask = search.any(): per column, whether some row matches
mask(df, c) == [k \in 1..3 |-> \E i \in 1..Len(df) : search(df, c)[i][k]]

Found(df, c) == \E k \in 1..3 : mask(df, c)[k]

\* column = mask[mask == True].index[0]
column(df, c) == CHOOSE k \in 1..3 :
    mask(df, c)[k] /\ \A j \in 1..(k - 1) : ~mask(df, c)[j]

\* the first row that matches in any column
idx_any_column(df, c) ==
    CHOOSE i \in 1..Len(df) :
        /\ \E k \in 1..3 : search(df, c)[i][k]
        /\ \A j \in 1..(i - 1) : \A k \in 1..3 : ~search(df, c)[j][k]

\* self.idx = search[column][search[column] == True].index[0], as a
\* position 1..Len(df)
idx(df, c) ==
    LET k == column(df, c)
    IN  CHOOSE i \in 1..Len(df) :
            search(df, c)[i][k] /\ \A j \in 1..(i - 1) : ~search(df, c)[j][k]

\* the attributes assigned from row self.idx
Attributes(r) ==
    [name |-> r.Name, formula |-> r.Formula, cas |-> r.CAS_number,
     TP_temperature |-> r.TP_temperature, TP_pressure |-> r.TP_pressure,
     CP_temperature |-> r.CP_temperature, CP_pressure |-> r.CP_pressure,
     H_melt |-> r.H_melt, V_melt |-> r.V_melt, V_melt_calc |-> r.V_melt_calc,
     H_vap |-> r.H_vap, H_vap_boil |-> r.H_vap_boil, H_sub |-> r.H_sub,
     antoine_A |-> r.A, antoine_B |-> r.B, antoine_C |-> r.C,
     antoine_Tmin |-> r.Tmin, antoine_Tmax |-> r.Tmax]

NullSelf ==
    Attributes(Row("", "", "", NaN, NaN, NaN, NaN, NaN, NaN, NaN, NaN, NaN,
                   NaN, NaN, NaN, NaN, NaN, NaN))

NoResult == [T |-> <<>>, P |-> <<>>, extra |-> <<>>]

NoCall == [fn |-> "", temp_range |-> 0]

----------------------------------------------------------------------------
(* The curve evaluators, as functions of the object s and the argument *)

\* the derived volume preferred over the tabulated one
V_melt_used_calc_first(s) ==
    IF IsNaN(s.V_melt_calc) THEN s.V_melt ELSE s.V_melt_calc

\* lines 101-104
V_melt_used(s) == IF IsNaN(s.V_melt) THEN s.V_melt_calc ELSE s.V_melt

\* the sign test reversed
sl_temp_range_swapped(s, temp_range) ==
    IF VGt0(V_melt_used(s)) THEN temp_range ELSE -temp_range

\* lines 106-107
sl_temp_range(s, temp_range) ==
    IF VGt0(V_melt_used(s)) THEN -temp_range ELSE temp_range

\* lines 109-111
sl_T_arr(s, temp_range) ==
    linspace(s.TP_temperature.c0,
             RSub(s.TP_temperature.c0, Rat(sl_temp_range(s, temp_range))),
             NUM)

\* lines 112-113
sl_P_arr(s, T_arr) ==
    LET cte == VDiv(s.H_melt, V_melt_used(s))
    IN  [i \in 1..Len(T_arr) |->
            VAdd(s.TP_pressure,
                 VMul(FR(PA_PER_KJ_CC),
                      VMul(cte, VLog(VDiv(FR(T_arr[i]), s.TP_temperature)))))]

clapeyron_sl_ret(s, temp_range) ==
    LET T_arr == sl_T_arr(s, temp_range)
    IN  [T |-> T_arr, P |-> sl_P_arr(s, T_arr), extra |-> <<>>]

\* the prefactor taken from the critical point
exp_P_arr_critical(s, H, T_arr) ==
    LET cte == VDiv(H, FR(gas_constant))
    IN  [i \in 1..Len(T_arr) |->
            VMul(s.CP_pressure,
                 VExp(VMul(FR(KJ_PER_J),
                           VMul(cte,
                                VSub(VDiv(FR(Rat(1)), s.TP_temperature),
                                     VDiv(FR(Rat(1)), FR(T_arr[i])))))))]

\* the two reciprocals exchanged
exp_P_arr_inverted(s, H, T_arr) ==
    LET cte == VDiv(H, FR(gas_constant))
    IN  [i \in 1..Len(T_arr) |->
            VMul(s.TP_pressure,
                 VExp(VMul(FR(KJ_PER_J),
                           VMul(cte,
                                VSub(VDiv(FR(Rat(1)), FR(T_arr[i])),
                                     VDiv(FR(Rat(1)), s.TP_temperature))))))]

\* P' exp[(H / R)(1 / T' - 1 / T)], lines 133-135 and 156-158
exp_P_arr(s, H, T_arr) ==
    LET cte == VDiv(H, FR(gas_constant))
    IN  [i \in 1..Len(T_arr) |->
            VMul(s.TP_pressure,
                 VExp(VMul(FR(KJ_PER_J),
                           VMul(cte,
                                VSub(VDiv(FR(Rat(1)), s.TP_temperature),
                                     VDiv(FR(Rat(1)), FR(T_arr[i])))))))]

\* lines 130-132
sv_T_arr(s, temp_range) ==
    linspace(RSub(s.TP_temperature.c0, Rat(temp_range)),
             s.TP_temperature.c0, NUM)

clapeyron_sv_ret(s, temp_range) ==
    LET T_arr == sv_T_arr(s, temp_range)
    IN  [T |-> T_arr, P |-> exp_P_arr(s, s.H_sub, T_arr), extra |-> <<>>]

\* lines 147-149 and 171-172
lv_T_arr(s) == linspace(s.TP_temperature.c0, s.CP_temperature.c0, NUM)

\* lines 151-154
H_vap_used(s) == IF IsNaN(s.H_vap_boil) THEN s.H_vap ELSE s.H_vap_boil

clapeyron_lv_ret(s) ==
    LET T_arr == lv_T_arr(s)
    IN  [T |-> T_arr, P |-> exp_P_arr(s, H_vap_used(s), T_arr), extra |-> <<>>]

\* the Celsius offset added to C instead of subtracted
antoine_coeffs_plus(s) ==
    << VAdd(s.antoine_A, FR(LOG10_PA_PER_MMHG)),
       s.antoine_B,
       VAdd(s.antoine_C, FR(CELSIUS_OFFSET)),
       VAdd(s.antoine_Tmin, FR(CELSIUS_OFFSET)),
       VAdd(s.antoine_Tmax, FR(CELSIUS_OFFSET)) >>

\* lines 174-178: A, B, C, Tmin, Tmax
antoine_coeffs(s) ==
    << VAdd(s.antoine_A, FR(LOG10_PA_PER_MMHG)),
       s.antoine_B,
       VSub(s.antoine_C, FR(CELSIUS_OFFSET)),
       VAdd(s.antoine_Tmin, FR(CELSIUS_OFFSET)),
       VAdd(s.antoine_Tmax, FR(CELSIUS_OFFSET)) >>

\* lines 180-182
antoine_P_arr(k, T_arr) ==
    [i \in 1..Len(T_arr) |->
        VPow10(VSub(k[1], VDiv(k[2], VAdd(k[3], FR(T_arr[i])))))]

antoine_lv_ret(s) ==
    LET T_arr == lv_T_arr(s)
        k == antoine_coeffs(s)
    IN  [T |-> T_arr, P |-> antoine_P_arr(k, T_arr), extra |-> k]

\* what the call recorded in c returns on the object s
Returns(s, c) ==
    CASE c.fn = "clapeyron_sl" -> clapeyron_sl_ret(s, c.temp_range)
      [] c.fn = "clapeyron_sv" -> clapeyron_sv_ret(s, c.temp_range)
      [] c.fn = "clapeyron_lv" -> clapeyron_lv_ret(s)
      [] c.fn = "antoine_lv" -> antoine_lv_ret(s)
      [] c.fn = "" -> NoResult

----------------------------------------------------------------------------
(* Actions *)

Init ==
    /\ DF \in Datasets
    /\ DF0 = DF
    /\ compound = ""
    /\ self = NullSelf
    /\ resolved = NullSelf
    /\ pc = "new"
    /\ result = NoResult
    /\ call = NoCall
    /\ prior = FALSE

\* PhaseDiagram(c): the object is built, or ValueError is raised
PhaseDiagram_init(c) ==
    /\ pc = "new"
    /\ compound' = c
    /\ IF Found(DF, c)
       THEN /\ self' = Attributes(DF[idx(DF, c)])
            /\ pc' = "ready"
       ELSE /\ self' = self
            /\ pc' = "ValueError"
    /\ resolved' = self'
    /\ UNCHANGED <<DF, DF0, result, call, prior>>

\* the fallback volume stored back into the object
clapeyron_sl_caching(temp_range) ==
    /\ pc = "ready"
    /\ result' = clapeyron_sl_ret(self, temp_range)
    /\ call' = [fn |-> "clapeyron_sl", temp_range |-> temp_range]
    /\ self' = [self EXCEPT !.V_melt = V_melt_used(self)]
    /\ prior' = (call.fn # "")
    /\ UNCHANGED <<DF, DF0, compound, pc, resolved>>

clapeyron_sl(temp_range) ==
    /\ pc = "ready"
    /\ result' = clapeyron_sl_ret(self, temp_range)
    /\ call' = [fn |-> "clapeyron_sl", temp_range |-> temp_range]
    /\ prior' = (call.fn # "")
    /\ UNCHANGED <<DF, DF0, compound, self, pc, resolved>>

clapeyron_sv(temp_range) ==
    /\ pc = "ready"
    /\ result' = clapeyron_sv_ret(self, temp_range)
    /\ call' = [fn |-> "clapeyron_sv", temp_range |-> temp_range]
    /\ prior' = (call.fn # "")
    /\ UNCHANGED <<DF, DF0, compound, self, pc, resolved>>

clapeyron_lv ==
    /\ pc = "ready"
    /\ result' = clapeyron_lv_ret(self)
    /\ call' = [fn |-> "clapeyron_lv", temp_range |-> 0]
    /\ prior' = (call.fn # "")
    /\ UNCHANGED <<DF, DF0, compound, self, pc, resolved>>

antoine_lv ==
    /\ pc = "ready"
    /\ result' = antoine_lv_ret(self)
    /\ call' = [fn |-> "antoine_lv", temp_range |-> 0]
    /\ prior' = (call.fn # "")
    /\ UNCHANGED <<DF, DF0, compound, self, pc, resolved>>

Next ==
    \/ \E c \in Identifiers : PhaseDiagram_init(c)
    \/ \E temp_range \in RangeArgs : clapeyron_sl(temp_range)
    \/ \E temp_range \in RangeArgs : clapeyron_sv(temp_range)
    \/ clapeyron_lv
    \/ antoine_lv

Spec == Init /\ [][Next]_vars

----------------------------------------------------------------------------
(* Properties *)

IsNeg(v) == IsRat(v) /\ RLess(v.c0, Zero)

Last(seq) == seq[Len(seq)]

TP == self.TP_temperature.c0

\* C1 as stated: clapeyron_sl with temp_range >= 0 ends at or below
\* T_triple when the melting volume it uses is positive, and at or above
\* T_triple when it is negative.
C1_Original ==
    (call.fn = "clapeyron_sl" /\ call.temp_range >= 0) =>
        LET V == IF IsNaN(self.V_melt) THEN self.V_melt_calc ELSE self.V_melt
        IN  /\ VGt0(V) => RLeq(Last(result.T), TP)
            /\ IsNeg(V) => RLeq(TP, Last(result.T))

\* C1 amended: clapeyron_sl with temp_range >= 0 samples from T_triple to
\* T_triple + temp_range when the melting volume it uses is positive (the
\* last temperature is >= T_triple), and from T_triple to
\* T_triple - temp_range when it is negative (the last is <= T_triple).
C1_Direction ==
    (call.fn = "clapeyron_sl" /\ call.temp_range >= 0) =>
        LET V == IF IsNaN(self.V_melt) THEN self.V_melt_calc ELSE self.V_melt
        IN  /\ result.T[1] = TP
            /\ VGt0(V) => /\ Last(result.T) = RAdd(TP, Rat(call.temp_range))
                          /\ RLeq(TP, Last(result.T))
            /\ IsNeg(V) => /\ Last(result.T) = RSub(TP, Rat(call.temp_range))
                           /\ RLeq(Last(result.T), TP)

C1_Witness ==
    /\ call.fn = "clapeyron_sl"
    /\ call.temp_range > 0
    /\ VGt0(self.V_melt)
    /\ RLess(TP, Last(result.T))

\* some cell of the three identification columns of row i equals c
RowMatches(i, c) ==
    DF[i].Name = c \/ DF[i].Formula = c \/ DF[i].CAS_number = c

\* C2: an identifier equal to an identification cell of some row resolves
\* to a record one of whose three identification fields equals it; an
\* identifier equal to no identification cell raises the not-found error
\* and no record is resolved.
C2_ExactMatch ==
    pc # "new" =>
        IF \E i \in 1..Len(DF) : RowMatches(i, compound)
        THEN /\ pc = "ready"
             /\ compound \in {self.name, self.formula, self.cas}
        ELSE /\ pc = "ValueError"
             /\ self = NullSelf

C2_Witness ==
    /\ pc = "ValueError"
    /\ compound = "h2o"
    /\ \E i \in 1..Len(DF) : DF[i].Formula = "H2O"

\* C3 as stated: the resolved record is the matching row of smallest index
\* over all three identification fields.
C3_Original ==
    pc = "ready" =>
        \E i \in 1..Len(DF) :
            /\ RowMatches(i, compound)
            /\ \A j \in 1..(i - 1) : ~RowMatches(j, compound)
            /\ self = Attributes(DF[i])

\* C3 amended: the columns are taken in the order name, formula, registry
\* number; the resolved record is the first row, in row order, whose cell
\* in the first column that contains the identifier equals the identifier.
C3_ColumnThenRow ==
    pc = "ready" =>
        \E k \in 1..3 : \E i \in 1..Len(DF) :
            /\ DF[i][IdColumns[k]] = compound
            /\ \A j \in 1..(i - 1) : DF[j][IdColumns[k]] # compound
            /\ \A m \in 1..(k - 1) : \A j \in 1..Len(DF) :
                   DF[j][IdColumns[m]] # compound
            /\ self = Attributes(DF[i])

C3_Witness ==
    /\ pc = "ready"
    /\ compound = "CO2"
    /\ self.name = "CO2"
    /\ \E i \in 1..Len(DF) : DF[i].Formula = "CO2" /\ DF[i].Name # "CO2"

\* C4: clapeyron_sl with both melting volumes missing, and clapeyron_lv
\* with both vaporization enthalpies missing, fail instead of returning
\* samples.
C4_MissingDataFails ==
    /\ (call.fn = "clapeyron_sl" /\ IsNaN(self.V_melt) /\ IsNaN(self.V_melt_calc))
           => result = NoResult
    /\ (call.fn = "clapeyron_lv" /\ IsNaN(self.H_vap_boil) /\ IsNaN(self.H_vap))
           => result = NoResult

\* C5: after any sequence of evaluator calls the attributes of the
\* resolved record and the dataset are unchanged, and the last call
\* returned what it returns on the record as it was resolved.
C5_Pure ==
    pc = "ready" =>
        /\ self = resolved
        /\ DF = DF0
        /\ result = Returns(resolved, call)

C5_Witness ==
    /\ pc = "ready"
    /\ prior
    /\ call.fn = "clapeyron_sl"
    /\ IsNaN(self.V_melt)

\* C6: every call returns exactly 100 temperatures and 100 pressures, the
\* temperatures evenly spaced and monotonic between the evaluator's two
\* endpoints; antoine_lv covers [T_triple, T_critical] whatever the
\* returned validity range is.
C6_Samples ==
    call.fn # "" =>
        /\ Len(result.T) = 100
        /\ Len(result.P) = 100
        /\ \A i \in 1..98 :
               RSub(result.T[i + 1], result.T[i])
                   = RSub(result.T[i + 2], result.T[i + 1])
        /\ \/ \A i \in 1..99 : RLeq(result.T[i], result.T[i + 1])
           \/ \A i \in 1..99 : RLeq(result.T[i + 1], result.T[i])
        /\ call.fn = "clapeyron_sl" =>
               /\ result.T[1] = TP
               /\ result.T[100] \in {RAdd(TP, Rat(call.temp_range)),
                                     RSub(TP, Rat(call.temp_range))}
        /\ call.fn = "clapeyron_sv" =>
               /\ result.T[1] = RSub(TP, Rat(call.temp_range))
               /\ result.T[100] = TP
        /\ call.fn \in {"clapeyron_lv", "antoine_lv"} =>
               /\ result.T[1] = TP
               /\ result.T[100] = self.CP_temperature.c0

C6_Witness ==
    /\ call.fn = "antoine_lv"
    /\ Len(result.P) = 100
    /\ RLess(result.T[1], result.extra[4].c0)

\* C7: with defined inputs, every returned sample at T_triple has pressure
\* P_triple; it is the first sample of clapeyron_sl and clapeyron_lv and
\* the last sample of clapeyron_sv.
C7_Anchored ==
    /\ (call.fn = "clapeyron_sl"
            /\ ~IsNaN(IF IsNaN(self.V_melt) THEN self.V_melt_calc ELSE self.V_melt))
       => /\ result.T[1] = TP
          /\ \A i \in 1..Len(result.T) :
                 result.T[i] = TP => VEq(result.P[i], self.TP_pressure)
    /\ (call.fn = "clapeyron_lv"
            /\ ~IsNaN(IF IsNaN(self.H_vap_boil) THEN self.H_vap ELSE self.H_vap_boil))
       => /\ result.T[1] = TP
          /\ \A i \in 1..Len(result.T) :
                 result.T[i] = TP => VEq(result.P[i], self.TP_pressure)
    /\ call.fn = "clapeyron_sv"
       => /\ Last(result.T) = TP
          /\ \A i \in 1..Len(result.T) :
                 result.T[i] = TP => VEq(result.P[i], self.TP_pressure)

C7_Witness ==
    /\ call.fn = "clapeyron_sv"
    /\ call.temp_range > 0
    /\ VEq(Last(result.P), self.TP_pressure)
    /\ ~VEq(result.P[1], self.TP_pressure)

\* C8: antoine_lv returns A + log10(101325/760), B, C - 273.15,
\* Tmin + 273.15 and Tmax + 273.15, and every returned pressure is
\* 10^(A' - B'/(C' + T)) for the returned A', B', C'.
C8_Antoine ==
    call.fn = "antoine_lv" =>
        /\ Len(result.extra) = 5
        /\ VSub(result.extra[1], self.antoine_A) = F(17, 8)
        /\ result.extra[2] = self.antoine_B
        /\ VAdd(result.extra[3], F(27315, 100)) = self.antoine_C
        /\ VSub(result.extra[4], self.antoine_Tmin) = F(27315, 100)
        /\ VSub(result.extra[5], self.antoine_Tmax) = F(27315, 100)
        /\ \A i \in 1..Len(result.T) :
               result.P[i] =
                   VPow10(VSub(result.extra[1],
                               VDiv(result.extra[2],
                                    VAdd(result.extra[3], FR(result.T[i])))))

C8_Witness ==
    /\ call.fn = "antoine_lv"
    /\ Len(result.extra) = 5
    /\ result.extra[3] = F(-4315, 100)

C10_Precedence ==
    /\ (call.fn = "clapeyron_sl" /\ call.temp_range # 0) =>
           LET V == IF ~IsNaN(self.V_melt) THEN self.V_melt ELSE self.V_melt_calc
               d == IF VGt0(V) THEN -call.temp_range ELSE call.temp_range
           IN  /\ Last(result.T) = RSub(TP, Rat(d))
               /\ Last(result.P) =
                      VAdd(self.TP_pressure,
                           VMul(F(1000000000, 1),
                                VMul(VDiv(self.H_melt, V),
                                     VLog(F(Last(result.T)[1] * TP[2],
                                            Last(result.T)[2] * TP[1])))))
    /\ call.fn = "clapeyron_lv" =>
           LET H == IF ~IsNaN(self.H_vap_boil) THEN self.H_vap_boil ELSE self.H_vap
           IN  Last(result.P) =
                   VMul(self.TP_pressure,
                        VExp(VMul(VDiv(VMul(F(1000, 1), H), F(8314, 1000)),
                                  F(Last(result.T)[1] * TP[2] - Last(result.T)[2] * TP[1],
                                    Last(result.T)[1] * TP[1]))))

C10_Witness ==
    /\ call.fn = "clapeyron_sl"
    /\ call.temp_range > 0
    /\ IsNeg(self.V_melt)
    /\ VGt0(self.V_melt_calc)
    /\ RLess(Last(result.T), TP)

====
